---- MODULE Spec2Model ----
(***************************************************************************)
(* Model of cpp/src/gandiva/like_holder.cc: the argument validator, the    *)
(* literal extractor, the holder constructors (RegexpMatchesHolder::Make,  *)
(* SQLLikeHolder::Make) and the pattern optimizer (TryOptimize).           *)
(*                                                                         *)
(* A pattern is a sequence of characters, each character a string:         *)
(*   "a"   a letter (a word character, \w)                                 *)
(*   "_"   the underscore (a word character, \w; LIKE's one-char wildcard) *)
(*   " "   a blank (whitespace, \s)                                        *)
(*   "^" "$" "." "*" "\\"  the engine's metacharacters                     *)
(*   "%"   LIKE's any-run wildcard (an ordinary character to the engine)   *)
(*   "xFF" the byte 0xFF, which is not valid UTF-8                         *)
(*   "NUL" the byte 0x00, the escape character of the two-argument         *)
(*         LIKE translator                                                 *)
(***************************************************************************)
EXTENDS Integers, Sequences, FiniteSets, TLC

VARIABLES node, pattern, op, result, result2, made

vars == <<node, pattern, op, result, result2, made>>

(* ------------------------------ bounds -------------------------------- *)

MaxLen == 4

MaxChildren == 3

SeqsUpTo(S, n) == UNION {[1..k -> S] : k \in 0..n}

RawAlphabet == {"a", " ", "^", "$", ".", "*"}

LikeAlphabet == {"a", " ", "_", "%", "xFF", "NUL"}

RawPatterns == SeqsUpTo(RawAlphabet, MaxLen)

LikePatterns == SeqsUpTo(LikeAlphabet, MaxLen)

(* --------------------------- expression tree --------------------------- *)

LiteralNode(type, holder, is_null) ==
    [kind |-> "literal", type |-> type, holder |-> holder, is_null |-> is_null]

FieldNode(fname, type) ==
    [kind |-> "field", type |-> type, holder |-> <<fname>>, is_null |-> FALSE]

FunctionNode(name, children, return_type) ==
    [name |-> name, children |-> children, return_type |-> return_type]

OutOfRange ==
    [kind |-> "out_of_range", type |-> "NA", holder |-> <<>>, is_null |-> FALSE]

\* std::vector::at(i), zero-based: the element, or std::out_of_range
At(children, i) ==
    IF (i + 1) \in DOMAIN children THEN children[i + 1] ELSE OutOfRange

(* ------------------------------- status -------------------------------- *)

StatusOK == [code |-> "OK", msg |-> <<>>]

Invalid(msg) == [code |-> "Invalid", msg |-> msg]

NullHolder == [isnull |-> TRUE, pattern |-> <<>>, ok |-> FALSE]

(* --------------------------- matching engine --------------------------- *)

\* The engine's parse of a pattern: a repetition operator needs an operand
\* and may not follow another repetition operator, a backslash escapes the
\* next character, and the text has to be valid UTF-8.
RECURSIVE RE2Parse(_, _, _)
RE2Parse(p, i, prev) ==
    IF i > Len(p) THEN TRUE
    ELSE CASE p[i] = "xFF" -> FALSE
           [] p[i] = "*" -> IF prev = "atom" THEN RE2Parse(p, i + 1, "repeat")
                                             ELSE FALSE
           [] p[i] = "\\" -> IF i = Len(p) \/ p[i + 1] = "xFF" THEN FALSE
                                ELSE RE2Parse(p, i + 2, "atom")
           [] OTHER -> RE2Parse(p, i + 1, "atom")

\* regex_.ok() of a holder built from text p
RegexOk(p) == RE2Parse(p, 1, "empty")

\* the character classes \w and \s
IsWord(c) == c \in {"a", "_"}

IsSpace(c) == c = " "

IsWordOrSpace(c) == IsWord(c) \/ IsSpace(c)

AllWordOrSpace(s) == \A k \in DOMAIN s : IsWordOrSpace(s[k])

EndsWithDotStar(t) ==
    Len(t) >= 2 /\ t[Len(t) - 1] = "." /\ t[Len(t)] = "*"

StartsWithDotStar(t) ==
    Len(t) >= 2 /\ t[1] = "." /\ t[2] = "*"

NoMatch == [matched |-> FALSE, cap1 |-> <<>>, cap2 |-> <<>>]

\* mutant: RE2::PartialMatch in place of RE2::FullMatch (leftmost-longest run)
RECURSIVE RunEnd(_, _)
RunEnd(t, i) ==
    IF i <= Len(t) /\ IsWordOrSpace(t[i]) THEN RunEnd(t, i + 1) ELSE i - 1

starts_with_regex_Partial(t) ==
    IF Len(t) >= 2 /\ t[1] = "^" /\ IsWordOrSpace(t[2])
    THEN [matched |-> TRUE, cap1 |-> SubSeq(t, 2, RunEnd(t, 2)), cap2 |-> <<>>]
    ELSE NoMatch

\* mutant: the capture group closes after the optional wildcard marker
starts_with_regex_WideCapture(t) ==
    IF Len(t) >= 2 /\ t[1] = "^"
    THEN LET rest == SubSeq(t, 2, Len(t))
             run == IF EndsWithDotStar(rest) THEN SubSeq(rest, 1, Len(rest) - 2)
                                             ELSE rest
         IN IF Len(run) >= 1 /\ AllWordOrSpace(run)
            THEN [matched |-> TRUE, cap1 |-> rest, cap2 |-> <<>>]
            ELSE NoMatch
    ELSE NoMatch

\* RE2::FullMatch(t, R"(\^([\w\s]+)(\.\*)?)"): cap1 is [\w\s]+, cap2 the marker
starts_with_regex_(t) ==
    IF Len(t) >= 2 /\ t[1] = "^"
    THEN LET rest == SubSeq(t, 2, Len(t))
             run == IF EndsWithDotStar(rest) THEN SubSeq(rest, 1, Len(rest) - 2)
                                             ELSE rest
         IN IF Len(run) >= 1 /\ AllWordOrSpace(run)
            THEN [matched |-> TRUE, cap1 |-> run,
                  cap2 |-> SubSeq(rest, Len(run) + 1, Len(rest))]
            ELSE NoMatch
    ELSE NoMatch

\* mutant: the two capture groups are not told apart (the marker is group 2)
ends_with_regex_Swapped(t) ==
    IF Len(t) >= 2 /\ t[Len(t)] = "$"
    THEN LET front == SubSeq(t, 1, Len(t) - 1)
             run == IF StartsWithDotStar(front) THEN SubSeq(front, 3, Len(front))
                                                ELSE front
         IN IF Len(run) >= 1 /\ AllWordOrSpace(run)
            THEN [matched |-> TRUE, cap1 |-> run,
                  cap2 |-> SubSeq(front, 1, Len(front) - Len(run))]
            ELSE NoMatch
    ELSE NoMatch

\* RE2::FullMatch(t, R"((\.\*)?([\w\s]+)\$)"): cap1 is the marker, cap2 [\w\s]+
ends_with_regex_(t) ==
    IF Len(t) >= 2 /\ t[Len(t)] = "$"
    THEN LET front == SubSeq(t, 1, Len(t) - 1)
             run == IF StartsWithDotStar(front) THEN SubSeq(front, 3, Len(front))
                                                ELSE front
         IN IF Len(run) >= 1 /\ AllWordOrSpace(run)
            THEN [matched |-> TRUE,
                  cap1 |-> SubSeq(front, 1, Len(front) - Len(run)),
                  cap2 |-> run]
            ELSE NoMatch
    ELSE NoMatch

\* mutant: (\w|\s)+ in place of (\w|\s)*
is_substr_regex_Plus(t) ==
    IF Len(t) >= 1 /\ AllWordOrSpace(t)
    THEN [matched |-> TRUE, cap1 |-> <<t[Len(t)]>>, cap2 |-> <<>>]
    ELSE NoMatch

\* RE2::FullMatch(t, R"((\w|\s)*)"): cap1 is the last repetition of the group
is_substr_regex_(t) ==
    IF AllWordOrSpace(t)
    THEN [matched |-> TRUE,
          cap1 |-> IF Len(t) = 0 THEN <<>> ELSE <<t[Len(t)]>>,
          cap2 |-> <<>>]
    ELSE NoMatch

(* ------------------------- the LIKE translator ------------------------- *)

PcreSpecials == {"^", "$", "*", "\\"}

EscapeChar == "NUL"

\* RegexUtil::SqlLikePatternToPcre(sql_pattern, pcre_pattern)
RECURSIVE SqlLikeScan(_, _, _)
SqlLikeScan(p, i, acc) ==
    IF i > Len(p) THEN [status |-> StatusOK, pcre |-> acc]
    ELSE LET cur == p[i]
             acc1 == IF cur \in PcreSpecials THEN Append(acc, "\\") ELSE acc
         IN CASE cur = EscapeChar ->
                   IF i = Len(p)
                   THEN [status |-> Invalid(<<"Unexpected escape char at the end of pattern", p>>),
                         pcre |-> <<>>]
                   ELSE IF p[i + 1] \in {"_", "%", EscapeChar}
                        THEN SqlLikeScan(p, i + 2, Append(acc1, p[i + 1]))
                        ELSE [status |-> Invalid(<<"Invalid escape sequence in pattern", p>>),
                              pcre |-> <<>>]
              [] cur = "_" -> SqlLikeScan(p, i + 1, Append(acc1, "."))
              [] cur = "%" -> SqlLikeScan(p, i + 1, acc1 \o <<".", "*">>)
              [] OTHER -> SqlLikeScan(p, i + 1, Append(acc1, cur))

SqlLikePatternToPcre(p) == SqlLikeScan(p, 1, <<>>)

(* ------------------------------ validator ------------------------------ *)

\* mutant: every literal type is taken for a string literal
IsArrowStringLiteral_Any(type) == TRUE

IsArrowStringLiteral(type) == type = "STRING" \/ type = "BINARY"

\* mutant: the arity check is missing
ValidateArguments_NoArity(n) ==
    LET literal == At(n.children, 1) IN
    IF literal.kind # "literal"
    THEN [status |-> Invalid(<<n.name, "function requires a literal as the second parameter">>),
          reads |-> {1}]
    ELSE IF ~IsArrowStringLiteral(literal.type)
    THEN [status |-> Invalid(<<n.name, "function requires a string literal as the second parameter">>),
          reads |-> {1}]
    ELSE [status |-> StatusOK, reads |-> {1}]

\* RegexpMatchesHolder::ValidateArguments; reads: the children it looked at
ValidateArguments(n) ==
    IF Len(n.children) # 2
    THEN [status |-> Invalid(<<n.name, "function requires two parameters">>),
          reads |-> {}]
    ELSE LET literal == At(n.children, 1) IN
         IF literal.kind # "literal"
         THEN [status |-> Invalid(<<n.name, "function requires a literal as the second parameter">>),
               reads |-> {1}]
         ELSE IF ~IsArrowStringLiteral(literal.type)
         THEN [status |-> Invalid(<<n.name, "function requires a string literal as the second parameter">>),
               reads |-> {1}]
         ELSE [status |-> StatusOK, reads |-> {1}]

\* RegexpMatchesHolder::GetPattern
GetPattern(n) ==
    LET v == ValidateArguments(n) IN
    IF v.status.code # "OK"
    THEN [status |-> v.status, value |-> <<>>, reads |-> v.reads]
    ELSE [status |-> StatusOK, value |-> At(n.children, 1).holder,
          reads |-> v.reads \cup {1}]

(* ------------------------- holder construction ------------------------- *)

\* RegexpMatchesHolder::Make(const std::string&, holder*); the caller's
\* holder starts out null and is assigned only on success
Make(pcre_pattern) ==
    LET lholder == [isnull |-> FALSE, pattern |-> pcre_pattern,
                    ok |-> RegexOk(pcre_pattern)]
    IN IF ~lholder.ok
       THEN [status |-> Invalid(<<"Building RE2 pattern", pcre_pattern, "failed">>),
             holder |-> NullHolder, reads |-> {}]
       ELSE [status |-> StatusOK, holder |-> lholder, reads |-> {}]

\* RegexpMatchesHolder::Make(const FunctionNode&, holder*)
MakeNode(n) ==
    LET g == GetPattern(n) IN
    IF g.status.code # "OK"
    THEN [status |-> g.status, holder |-> NullHolder, reads |-> g.reads]
    ELSE [Make(g.value) EXCEPT !.reads = g.reads]

\* SQLLikeHolder::Make(const std::string&, holder*): the status of the base
\* Make is dropped, the base holder is handed over as it is
SQLLikeHolder_Make(sql_pattern) ==
    LET t == SqlLikePatternToPcre(sql_pattern) IN
    IF t.status.code # "OK"
    THEN [status |-> t.status, holder |-> NullHolder, reads |-> {}]
    ELSE LET base == Make(t.pcre)
         IN [status |-> StatusOK, holder |-> base.holder, reads |-> {}]

\* SQLLikeHolder::Make(const FunctionNode&, holder*)
SQLLikeHolder_MakeNode(n) ==
    LET g == GetPattern(n) IN
    IF g.status.code # "OK"
    THEN [status |-> g.status, holder |-> NullHolder, reads |-> g.reads]
    ELSE [SQLLikeHolder_Make(g.value) EXCEPT !.reads = g.reads]

(* ------------------------------ optimizer ------------------------------ *)

\* mutant: the replacement is typed and flagged by hand, not copied
Rewrite_NotCopied(n, name, substr) ==
    FunctionNode(name,
                 <<At(n.children, 0), LiteralNode("STRING", substr, TRUE)>>,
                 "BOOL")

\* the replacement node built in each of the three branches
Rewrite(n, name, substr) ==
    LET literal_type == At(n.children, 1).type IN
    FunctionNode(name,
                 <<At(n.children, 0), LiteralNode(literal_type, substr, FALSE)>>,
                 n.return_type)

\* RegexpMatchesHolder::TryOptimize; threw: an exception left the function
TryOptimize(n) ==
    LET m == MakeNode(n) IN
    IF m.status.code = "OK"
    THEN LET text == m.holder.pattern
             reads == m.reads \cup {0, 1}
             threw == At(n.children, 0).kind = "out_of_range"
                      \/ At(n.children, 1).kind = "out_of_range"
         IN IF starts_with_regex_(text).matched
            THEN [node |-> Rewrite(n, "starts_with", starts_with_regex_(text).cap1),
                  rewritten |-> TRUE, reads |-> reads, threw |-> threw]
            ELSE IF ends_with_regex_(text).matched
            THEN [node |-> Rewrite(n, "ends_with", ends_with_regex_(text).cap2),
                  rewritten |-> TRUE, reads |-> reads, threw |-> threw]
            ELSE IF is_substr_regex_(text).matched
            THEN [node |-> Rewrite(n, "is_substr", text),
                  rewritten |-> TRUE, reads |-> reads, threw |-> threw]
            ELSE [node |-> n, rewritten |-> FALSE, reads |-> m.reads,
                  threw |-> FALSE]
    ELSE [node |-> n, rewritten |-> FALSE, reads |-> m.reads, threw |-> FALSE]

(* ------------------------------- inputs -------------------------------- *)

FieldX == FieldNode("x", "STRING")

NestedCall ==
    [kind |-> "function", type |-> "STRING", holder |-> <<"upper">>, is_null |-> FALSE]

ChildSamples ==
    { FieldX,
      NestedCall,
      LiteralNode("STRING", <<"a", "_">>, FALSE),
      LiteralNode("BINARY", <<"a", "$">>, FALSE),
      LiteralNode("INT32", <<"7">>, FALSE),
      LiteralNode("STRING", <<>>, TRUE) }

\* well-shaped calls over every pattern text
WideNodes ==
    {FunctionNode("regexp_matches", <<FieldX, LiteralNode("STRING", p, FALSE)>>, "BOOL")
        : p \in RawPatterns}
    \cup
    {FunctionNode("like", <<FieldX, LiteralNode("STRING", p, FALSE)>>, "BOOL")
        : p \in LikePatterns}

\* calls of every shape over a few children
ShapeNodes ==
    {FunctionNode(nm, kids, rt) :
        nm \in {"regexp_matches", "like"},
        kids \in SeqsUpTo(ChildSamples, MaxChildren),
        rt \in {"BOOL", "INT32"}}

NoNode == FunctionNode("none", <<>>, "NA")

NoResult == [node |-> NoNode, rewritten |-> FALSE, reads |-> {}, threw |-> FALSE]

NoMade == [status |-> StatusOK, holder |-> NullHolder, reads |-> {}]

(* ---------------------------- state machine ---------------------------- *)

Init ==
    /\ \/ node \in WideNodes \cup ShapeNodes /\ pattern = <<>>
       \/ node = NoNode /\ pattern \in RawPatterns \cup LikePatterns
    /\ op = "init"
    /\ result = NoResult
    /\ result2 = NoResult
    /\ made = NoMade

CallTryOptimize ==
    /\ op = "init"
    /\ node # NoNode
    /\ op' = "TryOptimize"
    /\ result' = TryOptimize(node)
    /\ UNCHANGED <<node, pattern, result2, made>>

CallTryOptimizeAgain ==
    /\ op = "TryOptimize"
    /\ op' = "TryOptimizeAgain"
    /\ result2' = TryOptimize(result.node)
    /\ UNCHANGED <<node, pattern, result, made>>

CallMake ==
    /\ op = "init"
    /\ node = NoNode
    /\ op' = "Make"
    /\ made' = Make(pattern)
    /\ UNCHANGED <<node, pattern, result, result2>>

CallMakeNode ==
    /\ op = "init"
    /\ node # NoNode
    /\ op' = "MakeNode"
    /\ made' = MakeNode(node)
    /\ UNCHANGED <<node, pattern, result, result2>>

CallLikeMake ==
    /\ op = "init"
    /\ node = NoNode
    /\ op' = "LikeMake"
    /\ made' = SQLLikeHolder_Make(pattern)
    /\ UNCHANGED <<node, pattern, result, result2>>

CallLikeMakeNode ==
    /\ op = "init"
    /\ node # NoNode
    /\ op' = "LikeMakeNode"
    /\ made' = SQLLikeHolder_MakeNode(node)
    /\ UNCHANGED <<node, pattern, result, result2>>

Next ==
    \/ CallTryOptimize
    \/ CallTryOptimizeAgain
    \/ CallMake
    \/ CallMakeNode
    \/ CallLikeMake
    \/ CallLikeMakeNode

Spec == Init /\ [][Next]_vars

(* ------------------------- vocabulary of the claims -------------------- *)

WordOrSpaceChars == {"a", "_", " "}

WordRuns == SeqsUpTo(WordOrSpaceChars, MaxLen) \ {<<>>}

WellShaped(n) ==
    /\ Len(n.children) = 2
    /\ n.children[2].kind = "literal"
    /\ n.children[2].type \in {"STRING", "BINARY"}

Text(n) == n.children[2].holder

\* the runs w with t = ^ w  or  t = ^ w .*
PrefixRuns(t) ==
    {w \in WordRuns : t = <<"^">> \o w \/ t = <<"^">> \o w \o <<".", "*">>}

\* the runs w with t = w $  or  t = .* w $
SuffixRuns(t) ==
    {w \in WordRuns : t = w \o <<"$">> \/ t = <<".", "*">> \o w \o <<"$">>}

PlainText(t) == \A k \in DOMAIN t : t[k] \in WordOrSpaceChars

Replacement(n, name, w) ==
    FunctionNode(name,
                 <<n.children[1], LiteralNode(n.children[2].type, w, FALSE)>>,
                 n.return_type)

Decision(r) ==
    IF r.rewritten THEN <<r.node.name, r.node.children[2].holder>> ELSE <<"none">>

MakeOps == {"Make", "MakeNode", "LikeMake", "LikeMakeNode"}

(* ------------------------------- claims -------------------------------- *)

\* C1: TryOptimize applied to its own output returns that output unchanged
\* (same operation name, same children, same literal text).
C1_Idempotent ==
    op = "TryOptimizeAgain" => result2.node = result.node

\* C2: whenever any Make entry point returns success, the holder it hands
\* back is present and wraps a successfully compiled matcher.
C2_SuccessHasCompiledHolder ==
    (op \in MakeOps /\ made.status.code = "OK")
        => (~made.holder.isnull /\ made.holder.ok)

\* C3: for a LIKE node with literal L whose translation succeeds, the rewrite
\* decision of TryOptimize equals the decision for a raw-pattern node whose
\* literal is translate(L).
C3_LikeDecidesOnTranslatedText ==
    (/\ op = "TryOptimize"
     /\ node.name = "like"
     /\ WellShaped(node)
     /\ SqlLikePatternToPcre(Text(node)).status.code = "OK")
        => Decision(result) =
           Decision(TryOptimize(
               FunctionNode("regexp_matches",
                            <<node.children[1],
                              LiteralNode(node.children[2].type,
                                          SqlLikePatternToPcre(Text(node)).pcre,
                                          node.children[2].is_null)>>,
                            node.return_type)))

\* C4: TryOptimize never throws; when node-based construction fails (wrong
\* arity, second child not a literal, literal not string-like, or pattern
\* rejected by the engine) it returns the input node unchanged, and it never
\* reads the second child of a node that failed the arity check.
C4_TryOptimizeNeverFails ==
    op = "TryOptimize" =>
        /\ ~result.threw
        /\ (~WellShaped(node) \/ ~RegexOk(Text(node))) =>
              /\ result.node = node
              /\ ~result.rewritten
        /\ Len(node.children) # 2 => 1 \notin result.reads

C4_Witness ==
    /\ op = "TryOptimize"
    /\ Len(node.children) = 1
    /\ result.node = node
    /\ result.reads = {}

\* C5: node-based Make (of either holder) fails with an invalid-shape error
\* and yields no holder for a node without exactly two children, with a
\* second child that is no literal, or with a literal that is neither STRING
\* nor BINARY; the first violated constraint in the order arity, literal,
\* literal type is the one reported, and an arity failure reads no child.
C5_InvalidShape ==
    op \in {"MakeNode", "LikeMakeNode"} =>
        /\ Len(node.children) # 2 =>
              /\ made.status = Invalid(<<node.name, "function requires two parameters">>)
              /\ made.holder.isnull
              /\ made.reads = {}
        /\ (Len(node.children) = 2 /\ node.children[2].kind # "literal") =>
              /\ made.status =
                   Invalid(<<node.name, "function requires a literal as the second parameter">>)
              /\ made.holder.isnull
        /\ (/\ Len(node.children) = 2
            /\ node.children[2].kind = "literal"
            /\ node.children[2].type \notin {"STRING", "BINARY"}) =>
              /\ made.status =
                   Invalid(<<node.name, "function requires a string literal as the second parameter">>)
              /\ made.holder.isnull

C5_Witness ==
    /\ op = "LikeMakeNode"
    /\ Len(node.children) = 2
    /\ node.children[2].kind = "literal"
    /\ node.children[2].type = "INT32"
    /\ made.status.code = "Invalid"
    /\ made.holder.isnull

\* C6: for a well-shaped node whose whole pattern text is ^, a non-empty run
\* of word-or-whitespace characters and an optional .*, TryOptimize returns
\* starts_with over the original first child and a new literal holding
\* exactly the run.
C6_PrefixRewrite ==
    (op = "TryOptimize" /\ WellShaped(node)) =>
        \A w \in PrefixRuns(Text(node)) :
            /\ result.rewritten
            /\ result.node = Replacement(node, "starts_with", w)

C6_Witness ==
    /\ op = "TryOptimize"
    /\ WellShaped(node)
    /\ Text(node) = <<"^", "a", ".", "*">>
    /\ result.node.name = "starts_with"
    /\ Text(result.node) = <<"a">>

\* C7: for a well-shaped node whose whole pattern text is an optional .*, a
\* non-empty run of word-or-whitespace characters and $, TryOptimize returns
\* ends_with with a new literal holding exactly the run, with or without
\* the leading .*.
C7_SuffixRewrite ==
    (op = "TryOptimize" /\ WellShaped(node)) =>
        \A w \in SuffixRuns(Text(node)) :
            /\ result.rewritten
            /\ result.node = Replacement(node, "ends_with", w)

C7_Witness ==
    /\ op = "TryOptimize"
    /\ WellShaped(node)
    /\ Text(node) = <<".", "*", "a", "$">>
    /\ result.node.name = "ends_with"
    /\ Text(result.node) = <<"a">>

\* C8: for a well-shaped node whose pattern text is made of word-or-whitespace
\* characters only (the empty text included), TryOptimize returns is_substr
\* with a new literal holding the pattern text unmodified.
C8_SubstrRewrite ==
    (op = "TryOptimize" /\ WellShaped(node) /\ PlainText(Text(node))) =>
        /\ result.rewritten
        /\ result.node = Replacement(node, "is_substr", Text(node))

C8_Witness ==
    /\ op = "TryOptimize"
    /\ WellShaped(node)
    /\ Text(node) = <<>>
    /\ result.node.name = "is_substr"
    /\ Text(result.node) = <<>>

\* C9: for a well-shaped node whose pattern text compiles but is, as a whole,
\* none of the three shapes, TryOptimize returns the original node unchanged.
C9_WholeTextOnly ==
    (/\ op = "TryOptimize"
     /\ WellShaped(node)
     /\ RegexOk(Text(node))
     /\ PrefixRuns(Text(node)) = {}
     /\ SuffixRuns(Text(node)) = {}
     /\ ~PlainText(Text(node))) =>
        /\ ~result.rewritten
        /\ result.node = node

C9_Witness ==
    /\ op = "TryOptimize"
    /\ WellShaped(node)
    /\ Text(node) = <<"^", "a", "$">>
    /\ ~result.rewritten
    /\ result.node = node

====
